---- MODULE Spec2Model ----
(***************************************************************************)
(* A model of puzzle_gen.py: the relation-selection engine of the puzzle   *)
(* generator (relation pool, geometry map, pair-state tracker, constraint  *)
(* filter, path builder, extra-fact sampler, deduplication) and the        *)
(* generate() call that drives them.  Every random draw of the program is  *)
(* a nondeterministic choice of the model.                                 *)
(***************************************************************************)
EXTENDS Integers, Sequences, FiniteSets, TLC

\* ------------------------------------------------------------------ bounds
\* People counts 0..MaxPeople are requested.
MaxPeople == 2
\* Requested minimum path lengths 0..MaxMinLen in the full run.
MaxMinLen == 1
\* The extra-fact sampler's drawn count is explored up to MaxExtra.
MaxExtra == 1
\* Requested minimum path lengths 0..MaxAdmitLen in the admission run.
MaxAdmitLen == 17
\* The path is built for calls with at most MaxEdges candidate edges.
MaxEdges == 21

\* The longest fact list handed to _graph_to_dot on its own.
MaxDotFacts == 3
\* The longest candidate list handed to _valid_relations_between on its own.
MaxCandidates == 3
\* The seatings handed to _build_spatial_relation_map on its own hold up to
\* MaxSeatPeople entities and up to MaxSeatEmpties empty seats.
MaxSeatPeople == 4
MaxSeatEmpties == 4

\* The people of the path runs from an admitted call.
MaxPathPeople == 3

\* Python's None.
None == "None"

\* ------------------------------------------------------- relation catalog
FIRST_NAMES ==
    << "Alex", "Sam", "Jordan", "Taylor", "Casey", "Riley", "Avery", "Morgan",
       "Quinn", "Reese", "Chris", "Jamie", "Cameron", "Drew", "Logan", "Devon",
       "Shawn", "Dana", "Frankie", "Jesse", "Robin", "Kelly", "Leslie",
       "Skyler", "Rowan", "Sawyer", "Parker", "Elliot", "Harley", "Remy" >>

COMMON_RELATIONS ==
    << "parent_of", "child_of", "sibling_of", "cousin_of", "spouse_of",
       "friend_of", "coworker_of", "neighbor_of" >>

LINEAR_RELATIONS == << "left_of", "right_of", "next_to" >>

CIRCULAR_RELATIONS == << "left_of", "right_of", "next_to", "across_from" >>

RELATION_SETS(group) ==
    CASE group = "common" -> COMMON_RELATIONS
      [] group = "linear" -> LINEAR_RELATIONS
      [] group = "circular" -> CIRCULAR_RELATIONS

VALID_SEATING_KINDS == << "linear", "circular" >>

DEFAULT_RELATION_PROFILE == "auto"

VALID_RELATION_PROFILES == << "auto", "social", "spatial", "all" >>

VALID_DIFFICULTY_LEVELS == << "low", "medium", "high" >>

MEDIUM_COMMON_RELATIONS ==
    << "classmate_of", "teammate_of", "mentor_of", "mentee_of" >>

HIGH_COMMON_RELATIONS ==
    MEDIUM_COMMON_RELATIONS \o << "manager_of", "reports_to", "rival_of" >>

HIGH_LINEAR_RELATIONS == << "two_left_of", "two_right_of" >>

HIGH_CIRCULAR_RELATIONS ==
    HIGH_LINEAR_RELATIONS \o << "clockwise_of", "counterclockwise_of" >>

\* DIFFICULTY_ADDITIONS[difficulty].get(group, [])
DIFFICULTY_ADDITIONS(difficulty, group) ==
    CASE difficulty = "medium" /\ group = "common" -> MEDIUM_COMMON_RELATIONS
      [] difficulty = "high" /\ group = "common" -> HIGH_COMMON_RELATIONS
      [] difficulty = "high" /\ group = "linear" -> HIGH_LINEAR_RELATIONS
      [] difficulty = "high" /\ group = "circular" -> HIGH_CIRCULAR_RELATIONS
      [] OTHER -> << >>

Range(s) == { s[i] : i \in DOMAIN s }

SPATIAL_RELATIONS ==
    Range(LINEAR_RELATIONS) \cup Range(HIGH_LINEAR_RELATIONS)
        \cup { "across_from", "clockwise_of", "counterclockwise_of" }

\* RELATION_CATEGORY.get(rel)
RELATION_CATEGORY(rel) ==
    IF rel \in Range(COMMON_RELATIONS) \cup Range(HIGH_COMMON_RELATIONS)
    THEN "social"
    ELSE IF rel \in Range(LINEAR_RELATIONS) \cup Range(CIRCULAR_RELATIONS)
                 \cup Range(HIGH_LINEAR_RELATIONS)
                 \cup { "clockwise_of", "counterclockwise_of" }
         THEN "spatial"
         ELSE None

EMPTY_PREFIX == "EMPTY_"

\* name.startswith(EMPTY_PREFIX)
_is_empty(name) ==
    /\ Len(name) >= Len(EMPTY_PREFIX)
    /\ SubSeq(name, 1, Len(EMPTY_PREFIX)) = EMPTY_PREFIX

\* INVERSE.get(rel, None)
INVERSE(rel) ==
    CASE rel = "parent_of" -> "child_of"
      [] rel = "child_of" -> "parent_of"
      [] rel = "sibling_of" -> "sibling_of"
      [] rel = "cousin_of" -> "cousin_of"
      [] rel = "spouse_of" -> "spouse_of"
      [] rel = "friend_of" -> "friend_of"
      [] rel = "coworker_of" -> "coworker_of"
      [] rel = "neighbor_of" -> "neighbor_of"
      [] rel = "classmate_of" -> "classmate_of"
      [] rel = "teammate_of" -> "teammate_of"
      [] rel = "mentor_of" -> "mentee_of"
      [] rel = "mentee_of" -> "mentor_of"
      [] rel = "manager_of" -> "reports_to"
      [] rel = "reports_to" -> "manager_of"
      [] rel = "rival_of" -> "rival_of"
      [] rel = "left_of" -> "right_of"
      [] rel = "right_of" -> "left_of"
      [] rel = "next_to" -> "next_to"
      [] rel = "across_from" -> "across_from"
      [] rel = "two_left_of" -> "two_right_of"
      [] rel = "two_right_of" -> "two_left_of"
      [] rel = "clockwise_of" -> "counterclockwise_of"
      [] rel = "counterclockwise_of" -> "clockwise_of"
      [] OTHER -> None

\* ------------------------------------------------------- string helpers
UPPER == "ABCDEFGHIJKLMNOPQRSTUVWXYZ"

LOWER == "abcdefghijklmnopqrstuvwxyz"

\* str.lower() of a one-character string.
LowerChar(c) ==
    IF \E i \in 1..Len(UPPER) : SubSeq(UPPER, i, i) = c
    THEN LET i == CHOOSE k \in 1..Len(UPPER) : SubSeq(UPPER, k, k) = c
         IN  SubSeq(LOWER, i, i)
    ELSE c

\* str.lower()
RECURSIVE Lower(_)
Lower(s) ==
    IF Len(s) = 0 THEN ""
    ELSE LowerChar(SubSeq(s, 1, 1)) \o Lower(SubSeq(s, 2, Len(s)))

\* Python truthiness of an optional string: None and "" are falsy.
Truthy(v) == v # None /\ v # ""

\* x in seq
InSeq(x, s) == \E i \in DOMAIN s : s[i] = x

\* ---------------------------------------------------- pair-state tracker
_relation_family_type(rel) ==
    IF rel \in { "parent_of", "child_of" } THEN "parent_child"
    ELSE IF rel = "sibling_of" THEN "sibling"
    ELSE IF rel = "cousin_of" THEN "cousin"
    ELSE IF rel = "spouse_of" THEN "spouse"
    ELSE None

\* dict.get(key) on a map held as a function: None when the key is absent.
DictGet(d, key) == IF key \in DOMAIN d THEN d[key] ELSE None

\* d[key] = value
DictSet(d, key, value) ==
    [ k \in DOMAIN d \cup { key } |-> IF k = key THEN value ELSE d[k] ]

\* The empty dict.
EmptyDict == [ k \in {} |-> None ]

\* Mutant: the early return for a label outside the family categories is
\* missing, so the pair's entry is overwritten with None.
RegisterWithoutFamilyGuard(pair_state, subj, rel, obj) ==
    IF subj = obj THEN pair_state
    ELSE DictSet(pair_state, { subj, obj }, _relation_family_type(rel))

\* The tracker after _register_family_relation(pair_state, subj, rel, obj);
\* the key is frozenset((subj, obj)).
_register_family_relation(pair_state, subj, rel, obj) ==
    LET family_type == _relation_family_type(rel)
    IN  IF family_type = None THEN pair_state
        ELSE IF subj = obj THEN pair_state
        ELSE DictSet(pair_state, { subj, obj }, family_type)

\* ----------------------------------------------------- constraint filter
\* Mutant: the filter does not compare the label's family category with the
\* pair's committed one.
RelationAllowedIgnoringFamily(subj, obj, rel, spatial_map, pair_state) ==
    /\ ~(subj = obj /\ _relation_family_type(rel) # None)
    /\ rel \in SPATIAL_RELATIONS =>
           (<< subj, obj >> \in DOMAIN spatial_map
              /\ rel \in spatial_map[<< subj, obj >>])

\* Mutant: a family label is not refused on a self relation.
RelationAllowedOnSelf(subj, obj, rel, spatial_map, pair_state) ==
    LET existing_family == DictGet(pair_state, { subj, obj })
        family_type == _relation_family_type(rel)
    IN  /\ ~(existing_family # None /\ family_type # None
               /\ existing_family # family_type)
        /\ rel \in SPATIAL_RELATIONS =>
               (<< subj, obj >> \in DOMAIN spatial_map
                  /\ rel \in spatial_map[<< subj, obj >>])

\* Whether the loop of _valid_relations_between appends rel.
RelationAllowed(subj, obj, rel, spatial_map, pair_state) ==
    LET existing_family == DictGet(pair_state, { subj, obj })
        family_type == _relation_family_type(rel)
    IN  /\ ~(subj = obj /\ family_type # None)
        /\ ~(existing_family # None /\ family_type # None
               /\ existing_family # family_type)
        \* allowed_spatial is spatial_map.get((subj, obj)): falsy when the
        \* key is absent
        /\ rel \in SPATIAL_RELATIONS =>
               (<< subj, obj >> \in DOMAIN spatial_map
                  /\ rel \in spatial_map[<< subj, obj >>])

_valid_relations_between(subj, obj, relations, spatial_map, pair_state) ==
    SelectSeq(relations,
              LAMBDA rel : RelationAllowed(subj, obj, rel, spatial_map, pair_state))

\* ------------------------------------------------------ geometry resolver
\* positions[name]: the 0-based index of name in ordered (names are distinct).
IndexOf(ordered, name) ==
    (CHOOSE i \in DOMAIN ordered : ordered[i] = name) - 1

\* Mutant: positions also holds the empty-seat markers.
OccupantsWithEmpties(ordered) == Range(ordered)

\* The keys of positions: the names of ordered that are not empty markers.
Occupants(ordered) == { name \in Range(ordered) : ~_is_empty(name) }

Abs(x) == IF x < 0 THEN -x ELSE x

\* Mutant: the labels for a distance of two seats are the other way round.
LinearLabelsTwoSwapped(idx_subj, idx_obj) ==
    (IF idx_subj < idx_obj THEN { "left_of" } ELSE {})
      \cup (IF idx_subj > idx_obj THEN { "right_of" } ELSE {})
      \cup (IF Abs(idx_subj - idx_obj) = 1 THEN { "next_to" } ELSE {})
      \cup (IF Abs(idx_subj - idx_obj) = 2
            THEN IF idx_subj < idx_obj THEN { "two_right_of" }
                 ELSE { "two_left_of" }
            ELSE {})

\* Mutant: only the pairs whose subject sits before the object get labels.
LinearLabelsLeftOnly(idx_subj, idx_obj) ==
    IF idx_subj < idx_obj
    THEN { "left_of" }
           \cup (IF Abs(idx_subj - idx_obj) = 1 THEN { "next_to" } ELSE {})
           \cup (IF Abs(idx_subj - idx_obj) = 2 THEN { "two_left_of" } ELSE {})
    ELSE {}

\* The labels the linear branch adds to relation_map[(subj, obj)].
LinearLabels(idx_subj, idx_obj) ==
    (IF idx_subj < idx_obj THEN { "left_of" } ELSE {})
      \cup (IF idx_subj > idx_obj THEN { "right_of" } ELSE {})
      \cup (IF Abs(idx_subj - idx_obj) = 1 THEN { "next_to" } ELSE {})
      \cup (IF Abs(idx_subj - idx_obj) = 2
            THEN IF idx_subj < idx_obj THEN { "two_left_of" }
                 ELSE { "two_right_of" }
            ELSE {})

\* Mutant: the across_from entry is added without the test for an even ring.
CircularLabelsAcrossOdd(ordered, subj, obj) ==
    LET n == Len(ordered)
        idx_obj == IndexOf(ordered, obj)
        left_name == ordered[((idx_obj - 1) % n) + 1]
        right_name == ordered[((idx_obj + 1) % n) + 1]
        two_left_name == ordered[((idx_obj - 2) % n) + 1]
        two_right_name == ordered[((idx_obj + 2) % n) + 1]
        across_name == ordered[((idx_obj + (n \div 2)) % n) + 1]
    IN  (IF ~_is_empty(left_name) /\ left_name = subj
         THEN { "left_of", "next_to", "counterclockwise_of" } ELSE {})
          \cup (IF ~_is_empty(right_name) /\ right_name = subj
                THEN { "right_of", "next_to", "clockwise_of" } ELSE {})
          \cup (IF ~_is_empty(two_left_name) /\ two_left_name = subj
                THEN { "two_left_of" } ELSE {})
          \cup (IF ~_is_empty(two_right_name) /\ two_right_name = subj
                THEN { "two_right_of" } ELSE {})
          \cup (IF across_name # obj /\ ~_is_empty(across_name)
                     /\ across_name = subj
                THEN { "across_from" } ELSE {})

\* The labels the circular branch adds to relation_map[(subj, obj)] in the
\* iteration of obj: subj is compared with the names found around obj.
CircularLabels(ordered, subj, obj) ==
    LET n == Len(ordered)
        idx_obj == IndexOf(ordered, obj)
        left_name == ordered[((idx_obj - 1) % n) + 1]
        right_name == ordered[((idx_obj + 1) % n) + 1]
        two_left_name == ordered[((idx_obj - 2) % n) + 1]
        two_right_name == ordered[((idx_obj + 2) % n) + 1]
        across_name == ordered[((idx_obj + (n \div 2)) % n) + 1]
    IN  (IF ~_is_empty(left_name) /\ left_name = subj
         THEN { "left_of", "next_to", "counterclockwise_of" } ELSE {})
          \cup (IF ~_is_empty(right_name) /\ right_name = subj
                THEN { "right_of", "next_to", "clockwise_of" } ELSE {})
          \cup (IF ~_is_empty(two_left_name) /\ two_left_name = subj
                THEN { "two_left_of" } ELSE {})
          \cup (IF ~_is_empty(two_right_name) /\ two_right_name = subj
                THEN { "two_right_of" } ELSE {})
          \cup (IF n % 2 = 0 /\ across_name # obj /\ ~_is_empty(across_name)
                     /\ across_name = subj
                THEN { "across_from" } ELSE {})

\* relation_map of _build_spatial_relation_map for seating (kind, ordered),
\* ordered being the seat names by position: a function from the pairs that
\* got an entry to their label sets.
_build_spatial_relation_map(kind, ordered) ==
    IF Len(ordered) = 0 THEN EmptyDict
    ELSE LET occ == Occupants(ordered)
             labels(subj, obj) ==
                 IF kind = "linear"
                 THEN IF subj = obj THEN {}
                      ELSE LinearLabels(IndexOf(ordered, subj),
                                        IndexOf(ordered, obj))
                 ELSE CircularLabels(ordered, subj, obj)
             keys == { p \in occ \X occ : labels(p[1], p[2]) # {} }
         IN  [ p \in keys |-> labels(p[1], p[2]) ]

\* ---------------------------------------------------- relation pool selector
\* The list after add_relations(items) on deduped (seen holds its elements):
\* an item is appended when it is neither in deduped nor earlier in items.
add_relations(deduped, items) ==
    LET unseen(i) == /\ ~InSeq(items[i], deduped)
                     /\ \A j \in 1..(i - 1) : items[j] # items[i]
        appended == SelectSeq([ i \in DOMAIN items |-> i ], unseen)
    IN  deduped \o [ k \in DOMAIN appended |-> items[appended[k]] ]

\* difficulty_normalized / diff_level
NormDifficulty(difficulty) ==
    Lower(IF Truthy(difficulty) THEN difficulty ELSE "low")

\* profile
NormProfile(relation_profile) ==
    Lower(IF Truthy(relation_profile) THEN relation_profile
          ELSE DEFAULT_RELATION_PROFILE)

\* Mutant: the social profile takes the groups of the auto profile.
ProfileGroupsSocialAsAuto(seating_kind, profile) ==
    CASE profile = "auto" -> << "common", seating_kind >>
      [] profile = "social" -> << "common", seating_kind >>
      [] profile = "spatial" -> << seating_kind >>
      [] profile = "all" -> << "common", "linear", "circular" >>
      [] OTHER -> << >>

\* groups; the else branch raises (ProfileSupported is false there)
ProfileGroups(seating_kind, profile) ==
    CASE profile = "auto" -> << "common", seating_kind >>
      [] profile = "social" -> << "common" >>
      [] profile = "spatial" -> << seating_kind >>
      [] profile = "all" -> << "common", "linear", "circular" >>
      [] OTHER -> << >>

ProfileSupported(profile) ==
    profile \in { "auto", "social", "spatial", "all" }

RECURSIVE AddGroups(_, _, _)
AddGroups(deduped, groups, difficulty) ==
    IF Len(groups) = 0 THEN deduped
    ELSE LET front == AddGroups(deduped, SubSeq(groups, 1, Len(groups) - 1),
                                difficulty)
             group == groups[Len(groups)]
         IN  add_relations(add_relations(front, RELATION_SETS(group)),
                           DIFFICULTY_ADDITIONS(difficulty, group))

\* Mutant: an unsupported profile falls back to the default groups instead
\* of raising.
RelationPoolDefaultingProfile(seating_kind, relation_profile, difficulty) ==
    LET difficulty_normalized == NormDifficulty(difficulty)
        profile == NormProfile(relation_profile)
        groups == IF ProfileSupported(profile)
                  THEN ProfileGroups(seating_kind, profile)
                  ELSE ProfileGroups(seating_kind, DEFAULT_RELATION_PROFILE)
    IN  IF ~InSeq(seating_kind, VALID_SEATING_KINDS)
        THEN [ err |-> "unsupported_seating_kind", pool |-> << >> ]
        ELSE IF ~InSeq(difficulty_normalized, VALID_DIFFICULTY_LEVELS)
        THEN [ err |-> "unsupported_difficulty", pool |-> << >> ]
        ELSE [ err |-> None,
               pool |-> AddGroups(<< >>, groups, difficulty_normalized) ]

\* _relation_pool: [err |-> the error raised or None, pool |-> deduped]
_relation_pool(seating_kind, relation_profile, difficulty) ==
    LET difficulty_normalized == NormDifficulty(difficulty)
        profile == NormProfile(relation_profile)
        groups == ProfileGroups(seating_kind, profile)
    IN  IF ~InSeq(seating_kind, VALID_SEATING_KINDS)
        THEN [ err |-> "unsupported_seating_kind", pool |-> << >> ]
        ELSE IF ~InSeq(difficulty_normalized, VALID_DIFFICULTY_LEVELS)
        THEN [ err |-> "unsupported_difficulty", pool |-> << >> ]
        ELSE IF ~ProfileSupported(profile)
        THEN [ err |-> "unsupported_profile", pool |-> << >> ]
        ELSE [ err |-> None,
               pool |-> AddGroups(<< >>, groups, difficulty_normalized) ]

\* ------------------------------------------------------ candidate edges
\* pair_state after the second loop of _candidate_edges over valids: every
\* iteration that writes assigns to the key of (subj, obj), so the write of
\* the last family label is the one that stays.
RegisterAll(pair_state, subj, valids, obj) ==
    LET family == SelectSeq(valids,
                            LAMBDA rel : _relation_family_type(rel) # None)
    IN  IF Len(family) = 0 THEN pair_state
        ELSE _register_family_relation(pair_state, subj,
                                       family[Len(family)], obj)

\* valid_edges after the first loop of _candidate_edges over valids.
AppendUnseen(valid_edges, subj, valids, obj) ==
    LET key(i) == << subj, valids[i], obj >>
        unseen(i) == /\ ~InSeq(key(i), valid_edges)
                     /\ \A j \in 1..(i - 1) : valids[j] # valids[i]
        appended == SelectSeq([ i \in DOMAIN valids |-> i ], unseen)
    IN  valid_edges \o [ k \in DOMAIN appended |-> key(appended[k]) ]

\* pair_state and valid_edges of _candidate_edges after the first k
\* iterations of its double loop over (subj, obj), subj outer and obj inner,
\* both in the order of names.
RECURSIVE CandidateLoop(_, _, _, _)
CandidateLoop(k, names, relations, spatial_map) ==
    IF k = 0 THEN [ pair_state |-> EmptyDict, valid_edges |-> << >> ]
    ELSE LET n == Len(names)
             before == CandidateLoop(k - 1, names, relations, spatial_map)
             subj == names[((k - 1) \div n) + 1]
             obj == names[((k - 1) % n) + 1]
             valids == _valid_relations_between(subj, obj, relations,
                                                spatial_map, before.pair_state)
         IN  IF n > 1 /\ subj = obj
                  /\ \E r \in Range(relations) : r \in SPATIAL_RELATIONS
             THEN before
             ELSE [ pair_state |->
                        RegisterAll(before.pair_state, subj, valids, obj),
                    valid_edges |->
                        AppendUnseen(before.valid_edges, subj, valids, obj) ]

_candidate_edges(names, relations, spatial_map) ==
    CandidateLoop(Len(names) * Len(names), names, relations,
                  spatial_map).valid_edges

\* ------------------------------------------------------------- pickers
\* viable of _pick_next_relation, flattened to the (name, rel) results that
\* random.choice(viable) followed by random.choice(valid) can return.
NextViable(current, names, relations, spatial_map, pair_state) ==
    { c \in Range(names) \X Range(relations) :
        /\ ~(Len(names) > 1 /\ c[1] = current)
        /\ InSeq(c[2], _valid_relations_between(current, c[1], relations,
                                                spatial_map, pair_state)) }

\* The (next_name, rel) results _pick_next_relation can return; empty when
\* it raises.
_pick_next_relation(current, names, relations, spatial_map, pair_state) ==
    LET viable == NextViable(current, names, relations, spatial_map, pair_state)
        valid_self == _valid_relations_between(current, current, relations,
                                               spatial_map, pair_state)
    IN  IF viable # {} THEN viable
        ELSE { << current, rel >> : rel \in Range(valid_self) }

\* The (subj, obj, rel) results _pick_relation_pair can return; empty when
\* it raises.
_pick_relation_pair(names, relations, spatial_map, pair_state) ==
    { t \in Range(names) \X Range(names) \X Range(relations) :
        /\ ~(Len(names) > 1 /\ t[1] = t[2])
        /\ InSeq(t[3], _valid_relations_between(t[1], t[2], relations,
                                                spatial_map, pair_state)) }

\* ---------------------------------------------------------------- facts
_emit_fact(id, a, rel, b) == [ id |-> id, subj |-> a, rel |-> rel, obj |-> b ]

\* Mutant: the mirrored fact repeats the forward label instead of its inverse.
AddBidirectionalSameLabel(id1, id2, a, rel, b) ==
    << _emit_fact(id1, a, rel, b), _emit_fact(id2, b, rel, a) >>

\* _add_bidirectional_facts with the two ids _rand_id returns.
_add_bidirectional_facts(id1, id2, a, rel, b) ==
    LET fwd == _emit_fact(id1, a, rel, b)
        inv == INVERSE(rel)
    IN  IF inv = None THEN << fwd >>
        ELSE << fwd, _emit_fact(id2, b, inv, a) >>

\* Mutant: the key of the seen set is the unordered pair and the label, so
\* the two directions of a symmetric label count as one fact.
RECURSIVE DedupeUnorderedPairs(_)
DedupeUnorderedPairs(facts) ==
    IF Len(facts) = 0 THEN << >>
    ELSE LET front == DedupeUnorderedPairs(SubSeq(facts, 1, Len(facts) - 1))
             f == facts[Len(facts)]
         IN  IF \E i \in DOMAIN front :
                    << { front[i].subj, front[i].obj }, front[i].rel >>
                        = << { f.subj, f.obj }, f.rel >>
             THEN front
             ELSE Append(front, f)

RECURSIVE _dedupe_facts(_)
_dedupe_facts(facts) ==
    IF Len(facts) = 0 THEN << >>
    ELSE LET front == _dedupe_facts(SubSeq(facts, 1, Len(facts) - 1))
             f == facts[Len(facts)]
         IN  IF \E i \in DOMAIN front :
                    << front[i].subj, front[i].rel, front[i].obj >>
                        = << f.subj, f.rel, f.obj >>
             THEN front
             ELSE Append(front, f)

\* f"{fact.subj}:{fact.rel} -> {fact.obj}"
FormatLine(fact) == fact.subj \o ":" \o fact.rel \o " -> " \o fact.obj

\* id_to_fact.get(fact_id) for id_to_fact = {fact.id: fact for fact in
\* all_facts}: the last fact of all_facts with that id, or None.
IdToFact(all_facts, fact_id) ==
    IF \E i \in DOMAIN all_facts : all_facts[i].id = fact_id
    THEN all_facts[CHOOSE i \in DOMAIN all_facts :
                       /\ all_facts[i].id = fact_id
                       /\ \A j \in DOMAIN all_facts :
                              all_facts[j].id = fact_id => j <= i]
    ELSE None

\* solution_summary: one line per path id found in id_to_fact, ids not found
\* are skipped.
RECURSIVE SolutionSummary(_, _)
SolutionSummary(all_facts, ids) ==
    IF Len(ids) = 0 THEN << >>
    ELSE IF \E i \in DOMAIN all_facts : all_facts[i].id = Head(ids)
         THEN << FormatLine(IdToFact(all_facts, Head(ids))) >>
                  \o SolutionSummary(all_facts, Tail(ids))
         ELSE SolutionSummary(all_facts, Tail(ids))

\* -------------------------------------------------- graph description
\* The characters of names and labels in code-point order: str comparison
\* goes by code point.
CODE_POINTS ==
    "0123456789ABCDEFGHIJKLMNOPQRSTUVWXYZ_abcdefghijklmnopqrstuvwxyz"

\* The rank of each character of CODE_POINTS.
CODE_RANK ==
    [ c \in { SubSeq(CODE_POINTS, i, i) : i \in 1..Len(CODE_POINTS) } |->
        CHOOSE i \in 1..Len(CODE_POINTS) : SubSeq(CODE_POINTS, i, i) = c ]

\* The rank of the one-character string c among CODE_POINTS.
Ord(c) == CODE_RANK[c]

\* a < b on str: the first differing character decides, a proper prefix is
\* smaller.
RECURSIVE StrLess(_, _)
StrLess(a, b) ==
    IF Len(b) = 0 THEN FALSE
    ELSE IF Len(a) = 0 THEN TRUE
    ELSE IF SubSeq(a, 1, 1) = SubSeq(b, 1, 1)
         THEN StrLess(SubSeq(a, 2, Len(a)), SubSeq(b, 2, Len(b)))
         ELSE Ord(SubSeq(a, 1, 1)) < Ord(SubSeq(b, 1, 1))

\* k1 < k2 on the (subj, rel, obj) keys: tuples compare item by item.
KeyLess(k1, k2) ==
    IF k1[1] # k2[1] THEN StrLess(k1[1], k2[1])
    ELSE IF k1[2] # k2[2] THEN StrLess(k1[2], k2[2])
    ELSE StrLess(k1[3], k2[3])

\* CANONICAL_RELATIONS.get(rel, (rel, False)): the label a line is written
\* with and whether subject and object swap.
CANONICAL_RELATIONS(rel) ==
    CASE rel = "parent_of" -> << "parent_of", FALSE >>
      [] rel = "child_of" -> << "parent_of", TRUE >>
      [] rel = "left_of" -> << "left_of", FALSE >>
      [] rel = "right_of" -> << "left_of", TRUE >>
      [] rel = "mentee_of" -> << "mentor_of", TRUE >>
      [] rel = "two_left_of" -> << "two_left_of", FALSE >>
      [] rel = "two_right_of" -> << "two_left_of", TRUE >>
      [] rel = "clockwise_of" -> << "clockwise_of", FALSE >>
      [] rel = "counterclockwise_of" -> << "clockwise_of", TRUE >>
      [] rel = "reports_to" -> << "manager_of", TRUE >>
      [] OTHER -> << rel, FALSE >>

\* Mutant: the two directions of a symmetric label are not brought to one
\* order.
CanonKeyWithoutOrdering(fact) ==
    LET canon == CANONICAL_RELATIONS(fact.rel)
    IN  IF canon[2] THEN << fact.obj, canon[1], fact.subj >>
        ELSE << fact.subj, canon[1], fact.obj >>

\* key of the loop of _graph_to_dot for one fact.
CanonKey(fact) ==
    LET canon == CANONICAL_RELATIONS(fact.rel)
        rel == canon[1]
        subj == IF canon[2] THEN fact.obj ELSE fact.subj
        obj == IF canon[2] THEN fact.subj ELSE fact.obj
    IN  IF INVERSE(rel) = rel /\ StrLess(obj, subj)
        THEN << obj, rel, subj >>
        ELSE << subj, rel, obj >>

\* The keys of dedup; the value stored under a key is the line of that key.
DotKeys(facts) == { CanonKey(facts[i]) : i \in DOMAIN facts }

\* sorted(...) over distinct keys: the smallest key first.
RECURSIVE SortedKeys(_)
SortedKeys(keys) ==
    IF keys = {} THEN << >>
    ELSE LET least == CHOOSE k \in keys :
                          \A other \in keys \ { k } : KeyLess(k, other)
         IN  << least >> \o SortedKeys(keys \ { least })

\* "\n".join(lines)
RECURSIVE JoinLines(_)
JoinLines(lines) ==
    IF Len(lines) = 0 THEN ""
    ELSE IF Len(lines) = 1 THEN lines[1]
    ELSE lines[1] \o "\n" \o JoinLines(Tail(lines))

\* The line stored under key.
DotLine(key) ==
    FormatLine([ subj |-> key[1], rel |-> key[2], obj |-> key[3] ])

_graph_to_dot(facts) ==
    LET sorted == SortedKeys(DotKeys(facts))
    IN  JoinLines([ i \in DOMAIN sorted |-> DotLine(sorted[i]) ])

\* ------------------------------------------------------------ the inputs
\* The sequences of length k without repetition over the set S.
Injections(k, S) ==
    { s \in [ 1..k -> S ] : \A i, j \in 1..k : i # j => s[i] # s[j] }

\* The orders random.shuffle can leave the list in.
Shuffles(list) == Injections(Len(list), DOMAIN list)

Permute(list, perm) == [ i \in DOMAIN list |-> list[perm[i]] ]

Min(a, b) == IF a < b THEN a ELSE b

Max(a, b) == IF a > b THEN a ELSE b

\* The results of _make_names(n, allow_duplicates=False).  random.sample is
\* explored over the first MaxPeople entries of FIRST_NAMES.
_make_names(n) ==
    LET k == Min(n, Len(FIRST_NAMES))
        fallback == [ i \in 1..(n - k) |-> "Name" \o ToString(i) ]
    IN  { chosen \o fallback :
            chosen \in Injections(k, Range(SubSeq(FIRST_NAMES, 1, MaxPeople))) }

\* The seating kinds generate can settle on: a random valid one when none is
\* supplied, else the supplied one lower-cased (checked by the caller).
KindChoices(kind_arg) ==
    IF kind_arg = None THEN Range(VALID_SEATING_KINDS)
    ELSE { Lower(kind_arg) }

\* empties
Empties(diff_level, names) ==
    LET extra_slots == IF diff_level = "medium" THEN 1
                       ELSE IF diff_level = "high"
                            THEN Max(1, Len(names) \div 3)
                            ELSE 0
    IN  [ i \in 1..extra_slots |-> EMPTY_PREFIX \o ToString(i) ]

\* The arguments of the modelled calls.
PeopleCounts == 0..MaxPeople

SeatingKindArgs == { None }

ProfileArgs == { None, "social", "spatial", "family" }

DifficultyArgs == { "low", "medium", "high" }

\* The admission run also supplies other spellings and unsupported values.
AdmitSeatingKindArgs ==
    SeatingKindArgs \cup { "linear", "circular", "Circular", "ring", "" }

AdmitProfileArgs == ProfileArgs \cup { "auto", "all", "Spatial", "" }

AdmitDifficultyArgs == DifficultyArgs \cup { None, "", "HIGH", "extreme" }

\* ------------------------------------------------------------- the state
VARIABLES
    pc,                \* where the generate call is: start, path, extras,
                       \* done (Puzzle returned), error (exception raised)
    n_people, min_graph_len, seating_kind, relation_profile, difficulty,
    names, kind, seats, relations, spatial_map, max_path, pair_state,
    L, current, path_facts, path_ids,
    extra_facts, extra_left,
    facts, dot, solution_summary,
    filter_subj, filter_obj, filter_valid,
                       \* a call of _valid_relations_between on its own: its
                       \* subj and obj arguments and the list it returns
    error              \* the exception generate raised, or None

args == << n_people, min_graph_len, seating_kind, relation_profile, difficulty >>

setup == << names, kind, seats, relations, spatial_map, max_path >>

path == << L, current, path_facts, path_ids >>

extras == << extra_facts, extra_left >>

result == << facts, dot, solution_summary >>

filter == << filter_subj, filter_obj, filter_valid >>

vars == << pc, args, setup, pair_state, path, extras, result, filter, error >>

InitLocals ==
    /\ pc = "start"
    /\ names = << >>
    /\ kind = None
    /\ seats = << >>
    /\ relations = << >>
    /\ spatial_map = EmptyDict
    /\ max_path = 0
    /\ pair_state = EmptyDict
    /\ L = 0
    /\ current = None
    /\ path_facts = << >>
    /\ path_ids = << >>
    /\ extra_facts = << >>
    /\ extra_left = 0
    /\ facts = << >>
    /\ dot = ""
    /\ solution_summary = << >>
    /\ filter_subj = None
    /\ filter_obj = None
    /\ filter_valid = << >>
    /\ error = None

\* A generate call about to run.
Init ==
    /\ n_people \in PeopleCounts
    /\ min_graph_len \in 0..MaxMinLen
    /\ seating_kind \in SeatingKindArgs
    /\ relation_profile \in ProfileArgs
    /\ difficulty \in DifficultyArgs
    /\ InitLocals

\* A generate call about to run, over the wider arguments of the admission
\* run.
InitAdmit ==
    /\ n_people \in PeopleCounts
    /\ min_graph_len \in 0..MaxAdmitLen
    /\ seating_kind \in AdmitSeatingKindArgs
    /\ relation_profile \in AdmitProfileArgs
    /\ difficulty \in AdmitDifficultyArgs
    /\ InitLocals

\* raise ValueError(...): the call ends with the exception.
Raise(e) ==
    /\ pc' = "error"
    /\ error' = e
    /\ UNCHANGED << args, setup, pair_state, path, extras, result, filter >>

\* The exception raised once the seating and the relation pool are known;
\* the locals it leaves behind are kept for the record.
RaiseAfterSeating(e, chosen, k, seating_list, pool, smap, edges) ==
    /\ pc' = "error"
    /\ error' = e
    /\ names' = chosen
    /\ kind' = k
    /\ seats' = seating_list
    /\ relations' = pool
    /\ spatial_map' = smap
    /\ max_path' = edges
    /\ UNCHANGED << args, pair_state, path, extras, result, filter >>

\* Mutant: the people count is compared with 1 instead of 2.
SpatialNeedsOne(relations_, names_) ==
    /\ Len(relations_) > 0
    /\ \A r \in Range(relations_) : r \in SPATIAL_RELATIONS
    /\ Len(names_) < 1

\* relations and all(rel in SPATIAL_RELATIONS for rel in relations)
\*   and len(names) < 2
SpatialNeedsTwo(relations_, names_) ==
    /\ Len(relations_) > 0
    /\ \A r \in Range(relations_) : r \in SPATIAL_RELATIONS
    /\ Len(names_) < 2

\* generate up to the call of _build_path: names, seating, relation pool,
\* geometry map and the admission checks.
Setup ==
    /\ pc = "start"
    /\ \E chosen \in _make_names(n_people), k \in KindChoices(seating_kind) :
         LET diff_level == NormDifficulty(difficulty)
         IN  IF ~InSeq(k, VALID_SEATING_KINDS)
             THEN Raise("unsupported_seating_kind")
             ELSE IF ~InSeq(diff_level, VALID_DIFFICULTY_LEVELS)
             THEN Raise("unsupported_difficulty")
             ELSE
               LET slots == chosen \o Empties(diff_level, chosen)
               IN  \E perm \in Shuffles(slots) :
                     LET seating_list == Permute(slots, perm)
                         pool == _relation_pool(k, relation_profile, diff_level)
                         smap == _build_spatial_relation_map(k, seating_list)
                         edges == Len(_candidate_edges(chosen, pool.pool, smap))
                     IN  IF pool.err # None THEN Raise(pool.err)
                         ELSE IF SpatialNeedsTwo(pool.pool, chosen)
                         THEN RaiseAfterSeating("spatial_needs_two_people", chosen,
                                                k, seating_list, pool.pool,
                                                EmptyDict, 0)
                         ELSE IF edges = 0
                         THEN RaiseAfterSeating("no_valid_relations", chosen, k,
                                                seating_list, pool.pool, smap, edges)
                         ELSE IF min_graph_len > edges
                         THEN RaiseAfterSeating("path_too_long", chosen, k,
                                                seating_list, pool.pool, smap, edges)
                         ELSE /\ pc' = "build_path"
                              /\ names' = chosen
                              /\ kind' = k
                              /\ seats' = seating_list
                              /\ relations' = pool.pool
                              /\ spatial_map' = smap
                              /\ max_path' = edges
                              /\ pair_state' = EmptyDict
                              /\ UNCHANGED << args, path, extras, result, filter, error >>

\* Mutant: the floor of one step is missing.
TargetLengthWithoutFloor(min_len, slack) == min_len + slack

\* L of _build_path for the drawn slack random.randint(0, 2)
TargetLength(min_len, slack) == Max(min_len, 1) + slack

\* _build_path before its loop: the target length and the starting entity.
BuildPathStart ==
    /\ pc = "build_path"
    /\ max_path <= MaxEdges
    /\ \E slack \in 0..2, start \in Range(names) :
         /\ L' = TargetLength(min_graph_len, slack)
         /\ current' = start
    /\ path_facts' = << >>
    /\ path_ids' = << >>
    /\ pc' = "path"
    /\ UNCHANGED << args, setup, pair_state, extras, result, filter, error >>

\* The number of _rand_id calls made so far.  The k-th call returns the id
\* k: the six-character draws are taken to differ from one another.
NextIds == Len(path_facts) + Len(extra_facts)

\* Mutant: the id appended is that of the mirrored fact.
StepIdOfMirror(pair) == pair[Len(pair)].id

\* pair[0].id: the id a path step appends to path_ids.
StepId(pair) == pair[1].id

\* One iteration of the loop of _build_path.
PathStep ==
    /\ pc = "path"
    /\ Len(path_ids) < L
    /\ LET picks == _pick_next_relation(current, names, relations,
                                        spatial_map, pair_state)
       IN  IF picks = {} THEN Raise("path_stalled")
           ELSE \E c \in picks :
                  LET next_name == c[1]
                      rel == c[2]
                      pair == _add_bidirectional_facts(NextIds + 1, NextIds + 2,
                                                       current, rel, next_name)
                  IN  /\ path_facts' = path_facts \o pair
                      /\ path_ids' = Append(path_ids, StepId(pair))
                      /\ pair_state' = _register_family_relation(
                                           pair_state, current, rel, next_name)
                      /\ current' = next_name
                      /\ UNCHANGED << pc, L, args, setup, extras, result, filter, error >>

\* _build_path returns; generate draws the number of extra edges.
ExtraStart ==
    /\ pc = "path"
    /\ Len(path_ids) = L
    /\ \E extra_edges \in Max(0, n_people - 2)..(n_people + 2) :
         /\ extra_edges <= MaxExtra
         /\ extra_left' = extra_edges
    /\ extra_facts' = << >>
    /\ pc' = "extras"
    /\ UNCHANGED << args, setup, pair_state, path, result, filter, error >>

\* One iteration of the extra-edge loop of generate; the ValueError of
\* _pick_relation_pair breaks the loop.
ExtraStep ==
    /\ pc = "extras"
    /\ extra_left > 0
    /\ LET picks == _pick_relation_pair(names, relations, spatial_map, pair_state)
       IN  IF picks = {}
           THEN /\ extra_left' = 0
                /\ UNCHANGED << extra_facts, pair_state >>
           ELSE \E t \in picks :
                  LET a == t[1]
                      b == t[2]
                      rel == t[3]
                  IN  /\ extra_facts' = extra_facts \o
                            _add_bidirectional_facts(NextIds + 1, NextIds + 2,
                                                     a, rel, b)
                      /\ pair_state' = _register_family_relation(pair_state, a, rel, b)
                      /\ extra_left' = extra_left - 1
    /\ UNCHANGED << pc, args, setup, path, result, filter, error >>

\* The end of generate: deduplication, the graph description, the solution
\* summary, the Puzzle.  The Puzzle is (names, facts, (kind, seats),
\* path_ids, dot, solution_summary, dense); dense is the caller's flag and is
\* not held in the state.
Finish ==
    /\ pc = "extras"
    /\ extra_left = 0
    /\ LET all_facts == _dedupe_facts(path_facts \o extra_facts)
       IN  /\ facts' = all_facts
           /\ dot' = _graph_to_dot(all_facts)
           /\ solution_summary' = SolutionSummary(all_facts, path_ids)
    /\ pc' = "done"
    /\ UNCHANGED << args, setup, pair_state, path, extras, filter, error >>

Next ==
    \/ Setup
    \/ BuildPathStart
    \/ PathStep
    \/ ExtraStart
    \/ ExtraStep
    \/ Finish

\* A whole generate call.
Spec == Init /\ [][Next]_vars

\* The admission part of generate over the wider arguments.
SpecAdmit == InitAdmit /\ [][Setup]_vars

\* ------------------------------------------- the pure functions on their own
\* No generate call is under way: the arguments of generate are at rest.
NoCall ==
    /\ n_people = 0
    /\ min_graph_len = 0
    /\ seating_kind = None
    /\ relation_profile = None
    /\ difficulty = "low"

\* The entities and labels of the fact lists handed to _graph_to_dot: names
\* with a common prefix, mirrored and symmetric labels, and a label that
\* CANONICAL_RELATIONS and INVERSE do not hold.
DotNames == { "Alex", "Sam", "Sawyer" }

DotLabels == { "parent_of", "child_of", "sibling_of", "knows" }

\* The fact list of the (subj, rel, obj) triples t; the k-th fact has the
\* id k.
FactList(t) == [ i \in DOMAIN t |-> _emit_fact(i, t[i][1], t[i][2], t[i][3]) ]

\* The locals of generate that a pure function on its own does not touch.
NoLocals ==
    /\ names = << >>
    /\ max_path = 0
    /\ L = 0
    /\ current = None
    /\ path_facts = << >>
    /\ path_ids = << >>
    /\ extra_facts = << >>
    /\ extra_left = 0
    /\ solution_summary = << >>
    /\ error = None

\* No call of _valid_relations_between on its own is under way.
NoFilterCall ==
    /\ filter_subj = None
    /\ filter_obj = None
    /\ filter_valid = << >>

\* A fact list about to be rendered.
InitDot ==
    /\ NoCall
    /\ NoLocals
    /\ NoFilterCall
    /\ kind = None
    /\ seats = << >>
    /\ relations = << >>
    /\ spatial_map = EmptyDict
    /\ pair_state = EmptyDict
    /\ \E k \in 0..MaxDotFacts :
         \E t \in [ 1..k -> DotNames \X DotLabels \X DotNames ] :
             facts = FactList(t)
    /\ dot = ""
    /\ pc = "render"

\* dot = _graph_to_dot(facts)
Render ==
    /\ pc = "render"
    /\ dot' = _graph_to_dot(facts)
    /\ pc' = "rendered"
    /\ UNCHANGED << args, setup, pair_state, path, extras, facts,
                    solution_summary, filter, error >>

\* _graph_to_dot on its own, over the bounded fact lists.
SpecDot == InitDot /\ [][Render]_vars

\* The arguments of the calls of _valid_relations_between on its own: two
\* entities, candidate lists of up to MaxCandidates labels (family, other
\* social and spatial ones, repeats included), geometry maps over some pairs
\* (an empty label set included) and trackers with or without a committed
\* category for the pair.
FilterNames == { "Alex", "Sam" }

FilterLabels == { "parent_of", "sibling_of", "friend_of", "left_of", "next_to" }

FilterMapKeys ==
    { << "Alex", "Sam" >>, << "Sam", "Alex" >>, << "Alex", "Alex" >> }

FilterLabelSets == { {}, { "left_of" }, { "left_of", "next_to" } }

FamilyCategories == { "parent_child", "sibling", "cousin", "spouse" }

\* A call of _valid_relations_between about to run.
InitFilter ==
    /\ NoCall
    /\ NoLocals
    /\ kind = None
    /\ seats = << >>
    /\ facts = << >>
    /\ dot = ""
    /\ filter_subj \in FilterNames
    /\ filter_obj \in FilterNames
    /\ filter_valid = << >>
    /\ \E k \in 0..MaxCandidates : relations \in [ 1..k -> FilterLabels ]
    /\ \E keys \in SUBSET FilterMapKeys :
         spatial_map \in [ keys -> FilterLabelSets ]
    /\ \E pairs \in SUBSET { FilterNames } :
         pair_state \in [ pairs -> FamilyCategories ]
    /\ pc = "filter"

\* valid = _valid_relations_between(subj, obj, relations, spatial_map,
\* pair_state); the function assigns to neither of its arguments.
Filter ==
    /\ pc = "filter"
    /\ filter_valid' = _valid_relations_between(filter_subj, filter_obj, relations,
                                                spatial_map, pair_state)
    /\ pc' = "filtered"
    /\ UNCHANGED << args, setup, pair_state, path, extras, result,
                    filter_subj, filter_obj, error >>

\* _valid_relations_between on its own, over the bounded arguments.
SpecFilter == InitFilter /\ [][Filter]_vars

\* f"{EMPTY_PREFIX}{i+1}" for i in range(extra_slots)
EmptyMarkers(extra_slots) ==
    [ i \in 1..extra_slots |-> EMPTY_PREFIX \o ToString(i) ]

\* A seating about to be resolved: up to MaxSeatPeople entities and up to
\* MaxSeatEmpties empty-seat markers in any order, in a row or a ring.
InitGeometry ==
    /\ NoCall
    /\ NoLocals
    /\ NoFilterCall
    /\ relations = << >>
    /\ pair_state = EmptyDict
    /\ facts = << >>
    /\ dot = ""
    /\ kind \in Range(VALID_SEATING_KINDS)
    /\ \E people \in 0..MaxSeatPeople, extra_slots \in 0..MaxSeatEmpties :
         LET slots == SubSeq(FIRST_NAMES, 1, people) \o EmptyMarkers(extra_slots)
         IN  \E perm \in Permutations(DOMAIN slots) :
                 seats = Permute(slots, perm)
    /\ spatial_map = EmptyDict
    /\ pc = "seated"

\* spatial_map = _build_spatial_relation_map(seating)
BuildMap ==
    /\ pc = "seated"
    /\ spatial_map' = _build_spatial_relation_map(kind, seats)
    /\ pc' = "mapped"
    /\ UNCHANGED << args, names, kind, seats, relations, max_path, pair_state,
                    path, extras, result, filter, error >>

\* _build_spatial_relation_map on its own, over the bounded seatings.
SpecGeometry == InitGeometry /\ [][BuildMap]_vars

\* The relation profiles of the path runs: the pool of geometry labels only
\* and the pool of social labels only.  BuildPathStart takes the calls with
\* at most MaxEdges candidate edges: every geometry-only pool of these
\* seatings, and the social pool for one person and for two people at low
\* difficulty.
PathProfiles == { "spatial", "social" }

\* generate at its call of _build_path: up to MaxPathPeople people, a
\* supplied seating kind, any seat order, and the pool, geometry map and edge
\* count of a call that passed the admission checks.
InitPath ==
    /\ n_people \in 1..MaxPathPeople
    /\ min_graph_len \in 0..MaxMinLen
    /\ seating_kind \in Range(VALID_SEATING_KINDS)
    /\ relation_profile \in PathProfiles
    /\ difficulty \in DifficultyArgs
    /\ NoFilterCall
    /\ names = SubSeq(FIRST_NAMES, 1, n_people)
    /\ kind = seating_kind
    /\ LET slots == names \o Empties(difficulty, names)
       IN  \E perm \in Permutations(DOMAIN slots) :
               seats = Permute(slots, perm)
    /\ relations = _relation_pool(kind, relation_profile, difficulty).pool
    /\ ~SpatialNeedsTwo(relations, names)
    /\ spatial_map = _build_spatial_relation_map(kind, seats)
    /\ max_path = Len(_candidate_edges(names, relations, spatial_map))
    /\ max_path # 0
    /\ min_graph_len <= max_path
    /\ pair_state = EmptyDict
    /\ L = 0
    /\ current = None
    /\ path_facts = << >>
    /\ path_ids = << >>
    /\ extra_facts = << >>
    /\ extra_left = 0
    /\ facts = << >>
    /\ dot = ""
    /\ solution_summary = << >>
    /\ error = None
    /\ pc = "build_path"

\* _build_path from its call to its return or its exception.
NextPath ==
    \/ BuildPathStart
    \/ PathStep
    \/ ExtraStart

\* The path construction of an admitted call, over the bounded seatings.
SpecPath == InitPath /\ [][NextPath]_vars

\* ================================================================ claims
\* Every fact emitted so far, path facts first.
Emitted == path_facts \o extra_facts

Triple(f) == << f.subj, f.rel, f.obj >>

ConfigErrors ==
    { "unsupported_seating_kind", "unsupported_difficulty", "unsupported_profile" }

\* No unordered pair carries two facts of different family categories.
NoFamilyContradiction(fs) ==
    \A i, j \in DOMAIN fs :
        ( /\ { fs[i].subj, fs[i].obj } = { fs[j].subj, fs[j].obj }
          /\ _relation_family_type(fs[i].rel) # None
          /\ _relation_family_type(fs[j].rel) # None )
        => _relation_family_type(fs[i].rel) = _relation_family_type(fs[j].rel)

\* C1: in every returned Puzzle (and in the facts emitted at every point of
\* the call) no unordered pair of entities has two facts whose labels map to
\* different family categories.
C1_NoFamilyContradiction ==
    /\ NoFamilyContradiction(Emitted)
    /\ pc = "done" => NoFamilyContradiction(facts)

\* C1 witness: a Puzzle in which one pair got family facts from two path
\* steps and from an extra step.
C1_Witness ==
    /\ pc = "done"
    /\ \E i, j \in DOMAIN path_facts, k \in DOMAIN extra_facts :
         /\ j > i + 1
         /\ _relation_family_type(path_facts[i].rel) # None
         /\ _relation_family_type(path_facts[j].rel) # None
         /\ _relation_family_type(extra_facts[k].rel) # None
         /\ path_facts[i].subj # path_facts[i].obj

\* Every spatial fact is in the geometry map of the seating.
SpatiallySound(fs) ==
    LET geometry == _build_spatial_relation_map(kind, seats)
    IN  \A i \in DOMAIN fs :
            fs[i].rel \in SPATIAL_RELATIONS =>
                /\ << fs[i].subj, fs[i].obj >> \in DOMAIN geometry
                /\ fs[i].rel \in geometry[<< fs[i].subj, fs[i].obj >>]

\* C2: every fact with a spatial label, the mirrored facts included, has its
\* label in the geometry map entry for (subject, object) computed from the
\* Puzzle's seating.
C2_SpatialSoundness ==
    /\ SpatiallySound(Emitted)
    /\ pc = "done" => SpatiallySound(facts)

\* C2 witness: a Puzzle on a ring with an empty seat holding a mirrored
\* rotational fact and a skip-distance fact.
C2_Witness ==
    /\ pc = "done"
    /\ kind = "circular"
    /\ \E p \in DOMAIN seats : _is_empty(seats[p])
    /\ \E i \in DOMAIN Emitted :
         /\ i % 2 = 0
         /\ Emitted[i].rel \in { "clockwise_of", "counterclockwise_of" }
    /\ \E i \in DOMAIN facts : facts[i].rel \in { "two_left_of", "two_right_of" }

\* Every fact between two different entities has its mirror in the list.
MirrorClosed(fs) ==
    \A i \in DOMAIN fs :
        fs[i].subj # fs[i].obj =>
            \E j \in DOMAIN fs :
                Triple(fs[j]) = << fs[i].obj, INVERSE(fs[i].rel), fs[i].subj >>

\* C3: for every fact (s, r, o) with s # o of the deduplicated fact list, a
\* fact (o, inverse(r), s) is in the list too (also for the list that
\* deduplication would give at any point of the call).
C3_MirroredFacts ==
    /\ MirrorClosed(_dedupe_facts(Emitted))
    /\ pc = "done" => MirrorClosed(facts)

\* C3 witness: a Puzzle whose deduplication dropped facts and kept facts of
\* a label that is not its own inverse.
C3_Witness ==
    /\ pc = "done"
    /\ Len(facts) < Len(Emitted)
    /\ \E i \in DOMAIN facts :
         /\ facts[i].subj # facts[i].obj
         /\ INVERSE(facts[i].rel) # facts[i].rel

\* C4 as stated: the solution path of a successful call has at least
\* min_path_length and at most min_path_length + 2 entries.
C4_PathLengthAsStated ==
    pc = "done" =>
        /\ Len(path_ids) >= min_graph_len
        /\ Len(path_ids) <= min_graph_len + 2

\* C4 amended: the solution path of a successful call has at least
\* max(min_path_length, 1) and at most max(min_path_length, 1) + 2 entries
\* (so at least min_path_length); the target is set when the path is started
\* and the finished path has exactly the target length.
C4_PathLength ==
    /\ pc \in { "path", "extras", "done" } =>
         /\ L >= Max(min_graph_len, 1)
         /\ L <= Max(min_graph_len, 1) + 2
         /\ Len(path_ids) <= L
    /\ pc \in { "extras", "done" } => Len(path_ids) = L

\* C4 witness: a Puzzle for min_path_length 0 with a path of three steps.
C4_Witness ==
    /\ pc = "done"
    /\ min_graph_len = 0
    /\ Len(path_ids) = 3

\* C5: the solution summary has one entry per solution-path step, in path
\* order, entry i being the line of the fact whose id is solution_path[i],
\* which is in the deduplicated fact list.
C5_SummaryPerStep ==
    pc = "done" =>
        /\ Len(solution_summary) = Len(path_ids)
        /\ \A i \in DOMAIN path_ids :
               \E k \in DOMAIN facts :
                   /\ facts[k].id = path_ids[i]
                   /\ i \in DOMAIN solution_summary
                   /\ solution_summary[i] = FormatLine(facts[k])

\* C7: a committed family category of a pair is never changed or removed by
\* a later step, and a step whose forward fact has a label outside the family
\* categories, or the same subject and object, leaves the tracker unchanged.
C7_CommittedStaysCommitted ==
    [][ /\ \A key \in DOMAIN pair_state :
              /\ key \in DOMAIN pair_state'
              /\ pair_state'[key] = pair_state[key]
        /\ Len(Emitted') > Len(Emitted) =>
              LET fwd == Emitted'[Len(Emitted) + 1]
              IN  ( \/ _relation_family_type(fwd.rel) = None
                    \/ fwd.subj = fwd.obj )
                  => pair_state' = pair_state ]_vars

\* C7 witness: the extra-fact loop has added a family fact on a pair whose
\* category a path step had committed.
C7_Witness ==
    /\ pc = "extras"
    /\ \E i \in DOMAIN path_facts, k \in DOMAIN extra_facts :
         /\ _relation_family_type(path_facts[i].rel) # None
         /\ _relation_family_type(extra_facts[k].rel) # None
         /\ { path_facts[i].subj, path_facts[i].obj } \in DOMAIN pair_state
         /\ { extra_facts[k].subj, extra_facts[k].obj }
                = { path_facts[i].subj, path_facts[i].obj }
    /\ \E i \in DOMAIN path_facts :
         _relation_family_type(path_facts[i].rel) = None

\* The (subject, relation, object) triples the constraint filter accepts
\* from an empty tracker.
LegalTriples ==
    { t \in Range(names) \X Range(relations) \X Range(names) :
        RelationAllowed(t[1], t[3], t[2], spatial_map, EmptyDict) }

\* C8: once the arguments are accepted and some relation can be formed,
\* generate fails with the path-too-long error exactly when min_path_length
\* exceeds the number of legal triples counted from an empty tracker.
C8_PathTooLongIffExceedsLegal ==
    (pc # "start" /\ error \in { None, "path_too_long" }) =>
        (error = "path_too_long" <=> min_graph_len > Cardinality(LegalTriples))

\* C9: generate fails whenever the resolved relation pool has only spatial
\* labels and fewer than two entities are requested.
C9_SpatialNeedsTwoPeople ==
    ( /\ pc # "start"
      /\ error \notin ConfigErrors
      /\ n_people < 2
      /\ Len(relations) > 0
      /\ \A r \in Range(relations) : r \in SPATIAL_RELATIONS )
    => (pc = "error" /\ error = "spatial_needs_two_people")

\* C9 witness: the failure for one person on a ring at the high tier.
C9_Witness ==
    /\ pc = "error"
    /\ error = "spatial_needs_two_people"
    /\ n_people = 1
    /\ kind = "circular"
    /\ difficulty = "HIGH"
    /\ "clockwise_of" \in Range(relations)

\* C10 as stated: generate fails with an invalid-configuration error whenever
\* a supplied seating kind, profile or difficulty is not one of the listed
\* values.
C10_InvalidConfigurationAsStated ==
    ( /\ pc # "start"
      /\ \/ seating_kind \notin { None } \cup Range(VALID_SEATING_KINDS)
         \/ relation_profile \notin { None } \cup Range(VALID_RELATION_PROFILES)
         \/ difficulty \notin { None } \cup Range(VALID_DIFFICULTY_LEVELS) )
    => (pc = "error" /\ error \in ConfigErrors)

\* Whether a supplied value, lower-cased, is one of the listed ones.
Recognized(value, listed) == Lower(value) \in Range(listed)

\* C10 amended: generate fails with an invalid-configuration error whenever
\* the supplied seating kind, profile or difficulty, lower-cased, is not one
\* of the listed values; an empty profile or difficulty counts as not
\* supplied.
C10_InvalidConfiguration ==
    ( /\ pc # "start"
      /\ \/ seating_kind # None
              /\ ~Recognized(seating_kind, VALID_SEATING_KINDS)
         \/ relation_profile \notin { None, "" }
              /\ ~Recognized(relation_profile, VALID_RELATION_PROFILES)
         \/ difficulty \notin { None, "" }
              /\ ~Recognized(difficulty, VALID_DIFFICULTY_LEVELS) )
    => (pc = "error" /\ error \in ConfigErrors)

\* C10 witness: the failure for an unsupported profile beside a seating kind
\* and a difficulty that are accepted in another spelling.
C10_Witness ==
    /\ pc = "error"
    /\ error = "unsupported_profile"
    /\ relation_profile = "family"
    /\ seating_kind = "Circular"
    /\ difficulty = "HIGH"

\* The labels of the fact sequence fs stay inside what the profile admits
\* (the profile as supplied: the calls explored spell it in lower case).
ProfileBoundsLabels(profile, fs) ==
    /\ profile = "social" =>
           \A i \in DOMAIN fs :
               /\ RELATION_CATEGORY(fs[i].rel) = "social"
               /\ fs[i].rel \notin SPATIAL_RELATIONS
    /\ profile = "spatial" =>
           \A i \in DOMAIN fs : fs[i].rel \in SPATIAL_RELATIONS

\* C11: at every difficulty tier the profile bounds the labels of all facts
\* (path facts, extra facts and their mirrors, while they are emitted and in
\* the returned Puzzle): under the social profile every fact has a social
\* label and none a spatial one, under the spatial profile every fact has a
\* spatial label.
C11_ProfileBoundsLabels ==
    /\ ProfileBoundsLabels(relation_profile, Emitted)
    /\ pc = "done" => ProfileBoundsLabels(relation_profile, facts)

\* C11 witness: a Puzzle returned under the social profile above the low
\* tier, holding a fact with a label the tier added and its mirror.
C11_Witness ==
    /\ pc = "done"
    /\ relation_profile = "social"
    /\ difficulty \in { "medium", "high" }
    /\ \E i, j \in DOMAIN facts :
         /\ InSeq(facts[i].rel, HIGH_COMMON_RELATIONS)
         /\ facts[j].rel = INVERSE(facts[i].rel)
         /\ facts[j].subj = facts[i].obj
         /\ facts[j].obj = facts[i].subj
         /\ i < j

\* The first position of sep in s, 0 when s does not hold it.
Find(s, sep) ==
    LET hits == { i \in 1..(Len(s) - Len(sep) + 1) :
                    SubSeq(s, i, i + Len(sep) - 1) = sep }
    IN  IF hits = {} THEN 0
        ELSE CHOOSE i \in hits : \A j \in hits : i <= j

\* The lines of a text: its pieces between line feeds.
RECURSIVE SplitLines(_)
SplitLines(s) ==
    LET i == Find(s, "\n")
    IN  IF i = 0 THEN << s >>
        ELSE << SubSeq(s, 1, i - 1) >> \o SplitLines(SubSeq(s, i + 1, Len(s)))

\* The (subject, relation, object) a line "subject:relation -> object" names.
ParseLine(line) ==
    LET i == Find(line, ":")
        rest == SubSeq(line, i + 1, Len(line))
        j == Find(rest, " -> ")
    IN  << SubSeq(line, 1, i - 1), SubSeq(rest, 1, j - 1),
           SubSeq(rest, j + 4, Len(rest)) >>

\* The triples of the lines of a graph description.
DotTriples(d) ==
    IF d = "" THEN << >>
    ELSE LET lines == SplitLines(d)
         IN  [ i \in DOMAIN lines |-> ParseLine(lines[i]) ]

\* A triple together with its mirror, when its label has an inverse.
MirrorClass(t) ==
    IF INVERSE(t[2]) = None THEN { t }
    ELSE { t, << t[3], INVERSE(t[2]), t[1] >> }

\* C12: for every fact list the lines of the graph description are sorted by
\* (subject, relation, object), every line stands for a fact of the list or
\* its mirror, every fact is stood for, and no two lines stand for the same
\* fact-or-mirror: a fact and its mirror yield one line.
C12_CanonicalDot ==
    pc = "rendered" =>
        LET ls == DotTriples(dot)
        IN  /\ \A i, j \in DOMAIN ls : i < j => KeyLess(ls[i], ls[j])
            /\ \A i, j \in DOMAIN ls :
                   i # j => MirrorClass(ls[i]) # MirrorClass(ls[j])
            /\ \A i \in DOMAIN ls : \E k \in DOMAIN facts :
                   ls[i] \in MirrorClass(Triple(facts[k]))
            /\ \A k \in DOMAIN facts : \E i \in DOMAIN ls :
                   ls[i] \in MirrorClass(Triple(facts[k]))

\* C12 witness: a symmetric fact listed in both directions, the later-sorting
\* name first, and a child_of fact render as two sorted lines.
C12_Witness ==
    /\ pc = "rendered"
    /\ Len(facts) = 3
    /\ Triple(facts[1]) = << "Sawyer", "sibling_of", "Sam" >>
    /\ Triple(facts[2]) = << "Sam", "sibling_of", "Sawyer" >>
    /\ Triple(facts[3]) = << "Sam", "child_of", "Alex" >>
    /\ dot = "Alex:parent_of -> Sam\nSam:sibling_of -> Sawyer"

\* No fact of fs has an empty-seat marker as its subject or object.
NoEmptyEndpoint(fs) ==
    \A i \in DOMAIN fs : ~_is_empty(fs[i].subj) /\ ~_is_empty(fs[i].obj)

\* C13: each real entity occupies exactly one seat and every other seat holds
\* an empty-seat marker; no fact (emitted or returned) has an empty-seat
\* marker as its subject or object; no key of the geometry map has an
\* empty-seat marker as either endpoint.
C13_EmptySeatsStayOut ==
    /\ \A name \in Range(names) :
           /\ ~_is_empty(name)
           /\ Cardinality({ i \in DOMAIN seats : seats[i] = name }) = 1
    /\ \A i \in DOMAIN seats : seats[i] \in Range(names) \/ _is_empty(seats[i])
    /\ NoEmptyEndpoint(Emitted)
    /\ pc = "done" => NoEmptyEndpoint(facts)
    /\ \A p \in DOMAIN spatial_map : ~_is_empty(p[1]) /\ ~_is_empty(p[2])

\* C13 witness: a Puzzle with spatial facts returned for two people seated
\* in a ring with an empty seat.
C13_Witness ==
    /\ pc = "done"
    /\ kind = "circular"
    /\ Len(names) = 2
    /\ \E i \in DOMAIN seats : _is_empty(seats[i])
    /\ \E i \in DOMAIN facts : facts[i].rel \in SPATIAL_RELATIONS
    /\ DOMAIN spatial_map # {}

\* Whether the label r is legal between the filter's subject and object, in
\* the words of the three rules.
FilterLegal(r) ==
    /\ _relation_family_type(r) # None =>
           /\ filter_subj # filter_obj
           /\ \/ { filter_subj, filter_obj } \notin DOMAIN pair_state
              \/ pair_state[{ filter_subj, filter_obj }]
                     = _relation_family_type(r)
    /\ r \in SPATIAL_RELATIONS =>
           /\ << filter_subj, filter_obj >> \in DOMAIN spatial_map
           /\ r \in spatial_map[<< filter_subj, filter_obj >>]

\* C14: a call of the filter returns exactly the candidates, in candidate
\* order, that are legal: a family-exclusive label needs subject # object and
\* no committed category other than its own, a spatial label needs to be in
\* the geometry map entry of (subject, object), any other social label is
\* always returned; the call leaves tracker and geometry map as they were.
C14_FilterExact ==
    [][ (pc = "filter" /\ pc' = "filtered") =>
            /\ filter_valid' = SelectSeq(relations, FilterLegal)
            /\ \A i \in DOMAIN relations :
                   ( /\ RELATION_CATEGORY(relations[i]) = "social"
                     /\ _relation_family_type(relations[i]) = None )
                   => InSeq(relations[i], filter_valid')
            /\ pair_state' = pair_state
            /\ spatial_map' = spatial_map ]_vars

\* C14 witness: with the pair committed to sibling and left_of missing from
\* the pair's map entry, the filter drops parent_of and left_of and keeps
\* friend_of.
C14_Witness ==
    /\ pc = "filtered"
    /\ filter_subj = "Alex"
    /\ filter_obj = "Sam"
    /\ relations = << "parent_of", "friend_of", "left_of" >>
    /\ pair_state = [ p \in { FilterNames } |-> "sibling" ]
    /\ << "Alex", "Sam" >> \notin DOMAIN spatial_map
    /\ filter_valid = << "friend_of" >>

\* The entities seated: the seat names that are not empty-seat markers.
Seated == { seats[i] : i \in { k \in DOMAIN seats : ~_is_empty(seats[k]) } }

\* The seat position of an entity.
SeatOf(name) == CHOOSE i \in DOMAIN seats : seats[i] = name

\* The geometry map entry of (s, o); no entry reads as no label.
Entry(s, o) ==
    IF << s, o >> \in DOMAIN spatial_map THEN spatial_map[<< s, o >>] ELSE {}

\* C15: in a row, for every ordered pair of distinct entities at positions i
\* and j (empty seats count as positions) the entry holds left_of iff i < j,
\* right_of iff i > j, next_to iff |i - j| = 1, two_left_of iff j - i = 2,
\* two_right_of iff i - j = 2, and nothing else.
C15_LinearGeometry ==
    (pc = "mapped" /\ kind = "linear") =>
        \A s, o \in Seated :
            s # o =>
                LET i == SeatOf(s)
                    j == SeatOf(o)
                IN  /\ "left_of" \in Entry(s, o) <=> i < j
                    /\ "right_of" \in Entry(s, o) <=> i > j
                    /\ "next_to" \in Entry(s, o) <=> (i - j = 1 \/ j - i = 1)
                    /\ "two_left_of" \in Entry(s, o) <=> j - i = 2
                    /\ "two_right_of" \in Entry(s, o) <=> i - j = 2
                    /\ Entry(s, o) \subseteq { "left_of", "right_of", "next_to",
                                              "two_left_of", "two_right_of" }

\* C15 witness: two entities in a row at positions 1 and 2 give
\* {(A,B): {left_of, next_to}, (B,A): {right_of, next_to}}.
C15_Witness ==
    /\ pc = "mapped"
    /\ kind = "linear"
    /\ seats = << "Alex", "Sam" >>
    /\ DOMAIN spatial_map = { << "Alex", "Sam" >>, << "Sam", "Alex" >> }
    /\ spatial_map[<< "Alex", "Sam" >>] = { "left_of", "next_to" }
    /\ spatial_map[<< "Sam", "Alex" >>] = { "right_of", "next_to" }

\* How many slots s sits after o, going round a ring of n slots.
RingSteps(s, o) == (SeatOf(s) - SeatOf(o)) % Len(seats)

\* C16: in a ring of n slots (occupied plus empty), with positions counted
\* in ring steps, the entry of (s, o) holds across_from iff n is even and s
\* sits n/2 slots from o; next_to iff s is one step from o on either side;
\* left_of only one step before o, right_of and clockwise_of only one step
\* after o; two_left_of and two_right_of only two steps from o; a pair at any
\* other distance has no entry.
C16_CircularGeometry ==
    (pc = "mapped" /\ kind = "circular") =>
        \A s, o \in Seated :
            LET n == Len(seats)
                d == RingSteps(s, o)
            IN  /\ "across_from" \in Entry(s, o) <=> (n % 2 = 0 /\ d = n \div 2)
                /\ "next_to" \in Entry(s, o) <=> (d = 1 % n \/ d = (n - 1) % n)
                /\ "left_of" \in Entry(s, o) => d = (n - 1) % n
                /\ "right_of" \in Entry(s, o) => d = 1 % n
                /\ "clockwise_of" \in Entry(s, o) => d = 1 % n
                /\ "two_left_of" \in Entry(s, o) => d \in { 2 % n, (n - 2) % n }
                /\ "two_right_of" \in Entry(s, o) => d \in { 2 % n, (n - 2) % n }
                /\ d \notin { 1 % n, (n - 1) % n, 2 % n, (n - 2) % n,
                             IF n % 2 = 0 THEN n \div 2 ELSE 1 % n }
                       => << s, o >> \notin DOMAIN spatial_map

\* C16 witness: a ring of eight slots with an entity across from another
\* (four slots away) and a third one three slots away, which has no entry.
C16_Witness ==
    /\ pc = "mapped"
    /\ kind = "circular"
    /\ Len(seats) = 8
    /\ \E s, o, t \in Seated :
         /\ RingSteps(s, o) = 4
         /\ "across_from" \in Entry(s, o)
         /\ RingSteps(t, o) = 3
         /\ << t, o >> \notin DOMAIN spatial_map

\* The forward fact emitted by the k-th path step: every step emits a
\* forward fact and its mirror.
ForwardOf(k) == path_facts[2 * k - 1]

\* C17: the solution path is a chain.  Each path step emits one forward fact
\* with its mirror and appends exactly one id, the id of that forward fact;
\* the subject of the forward fact of step k+1 is the object of the forward
\* fact of step k, and while the path is built the current entity is the
\* object of the last forward fact.
C17_PathIsChain ==
    /\ Len(path_facts) = 2 * Len(path_ids)
    /\ \A k \in DOMAIN path_ids :
           /\ path_ids[k] = ForwardOf(k).id
           /\ \A i \in DOMAIN path_facts :
                  path_facts[i].id = path_ids[k] => i = 2 * k - 1
    /\ \A k \in DOMAIN path_ids :
           k < Len(path_ids) => ForwardOf(k + 1).subj = ForwardOf(k).obj
    /\ (pc = "path" /\ Len(path_ids) > 0)
           => current = ForwardOf(Len(path_ids)).obj

\* C17 witness: a returned path of three steps between two entities, going
\* there, back and there again.
C17_Witness ==
    /\ pc = "done"
    /\ Len(path_ids) = 3
    /\ ForwardOf(1).subj # ForwardOf(1).obj
    /\ ForwardOf(2).subj = ForwardOf(1).obj
    /\ ForwardOf(2).obj = ForwardOf(1).subj
    /\ ForwardOf(3).subj = ForwardOf(1).subj

\* C18: no returned Puzzle holds both (a, parent_of, b) and (b, parent_of, a)
\* for a pair of entities a, b; once one parent/child direction is asserted
\* for a pair no later step asserts the reverse one.
C18_ParentOneWay ==
    \A i, j \in DOMAIN Emitted :
        ( /\ Emitted[i].rel = "parent_of"
          /\ Emitted[j].rel = "parent_of"
          /\ Emitted[i].subj = Emitted[j].obj )
        => Emitted[i].obj # Emitted[j].subj

\* C19: no ordered pair (s, o) has both left_of and right_of in the geometry
\* map of a seating generate produced, and no returned Puzzle holds both
\* (s, left_of, o) and (s, right_of, o).
C19_LeftXorRight ==
    pc = "done" =>
        /\ \A p \in DOMAIN spatial_map :
               ~({ "left_of", "right_of" } \subseteq spatial_map[p])
        /\ \A i, j \in DOMAIN facts :
               ( /\ facts[i].rel = "left_of"
                 /\ facts[j].rel = "right_of"
                 /\ facts[i].subj = facts[j].subj )
               => facts[i].obj # facts[j].obj

\* C20: no returned Puzzle holds a fact with a spatial label whose subject
\* and object are the same entity, and the geometry map of its seating has
\* no entry keyed (x, x).
C20_NoSpatialSelf ==
    pc = "done" =>
        /\ \A i \in DOMAIN facts :
               facts[i].rel \in SPATIAL_RELATIONS => facts[i].subj # facts[i].obj
        /\ \A p \in DOMAIN spatial_map : p[1] # p[2]

\* The entity the last path step left.
JustLeft == ForwardOf(Len(path_ids)).subj

\* C21: path construction can stall only at its first step.  After a path
\* step has emitted a fact, every later step of the same path finds a legal
\* (next entity, relation): the entity just left is among the picks of
\* _pick_next_relation.  So the exception of _pick_next_relation is never
\* raised once a path fact has been emitted, and _build_path never returns a
\* path shorter than its target length L.
C21_StallOnlyAtFirstStep ==
    /\ (pc = "path" /\ Len(path_ids) > 0 /\ Len(path_ids) < L)
           => \E c \in _pick_next_relation(current, names, relations,
                                           spatial_map, pair_state) :
                  c[1] = JustLeft
    /\ error = "path_stalled" => path_facts = << >>
    /\ pc \in { "extras", "done" } => Len(path_ids) = L

\* C21 witness: a path among three people over geometry labels only, in a
\* ring with an empty seat, after two steps through three different
\* entities and with a step still to take.
C21_Witness ==
    /\ pc = "path"
    /\ Len(names) = 3
    /\ kind = "circular"
    /\ \E i \in DOMAIN seats : _is_empty(seats[i])
    /\ \A r \in Range(relations) : r \in SPATIAL_RELATIONS
    /\ Len(path_ids) = 2
    /\ L = 3
    /\ ForwardOf(1).subj # ForwardOf(2).obj
    /\ ForwardOf(1).subj # ForwardOf(1).obj
    /\ ForwardOf(2).subj # ForwardOf(2).obj
====
